---- MODULE Spec2Model ----
(***************************************************************************)
(* SQLGenius tool server (src/sql_mcp_server.py): the four tool handlers   *)
(* registered by SQLGeniusServer.register_tools, the query safety gate     *)
(* validate_query and the SQL-extraction heuristic _extract_sql_query.     *)
(*                                                                         *)
(* A Python str is a sequence of characters; a character is a one-letter   *)
(* string, except the two characters named BT and SZ below.  Offsets are   *)
(* 0-based as in Python, and str.find's "not found" is -1.                 *)
(***************************************************************************)
EXTENDS Integers, Sequences, FiniteSets, TLC

VARIABLES op, query, llm_response, sql_query, outcome, ret, exc, calls

\* the tool server (src/sql_mcp_server.py)
server_vars == <<op, query, llm_response, sql_query, outcome, ret, exc, calls>>

VARIABLES
    processes,        \* the operating system's running processes that matter here
    pc,               \* where each browser session's script run stands
    button,           \* the button whose press started the session's script run
    site,             \* the line the call in progress returns to
    server_started,   \* st.session_state.server_started
    tools             \* st.session_state.tools

\* the web client (src/streamlit_app.py)
ui_vars == <<processes, pc, button, site, server_started, tools>>

vars == <<server_vars, ui_vars>>

-----------------------------------------------------------------------------
(* Characters and the str methods the server uses *)

\* the backtick character
BT == "bt"
\* U+00DF, LATIN SMALL LETTER SHARP S: str.upper() maps it to the two letters SS
SZ == "sz"

\* the cased letters: str.upper() and str.lower() of each
ToUpper ==
    [a |-> "A", b |-> "B", c |-> "C", d |-> "D", e |-> "E", f |-> "F", g |-> "G", h |-> "H", i |-> "I", j |-> "J", k |-> "K", l |-> "L", m |-> "M",
     n |-> "N", o |-> "O", p |-> "P", q |-> "Q", r |-> "R", s |-> "S", t |-> "T", u |-> "U", v |-> "V", w |-> "W", x |-> "X", y |-> "Y", z |-> "Z"]
ToLower ==
    [A |-> "a", B |-> "b", C |-> "c", D |-> "d", E |-> "e", F |-> "f", G |-> "g", H |-> "h", I |-> "i", J |-> "j", K |-> "k", L |-> "l", M |-> "m",
     N |-> "n", O |-> "o", P |-> "p", Q |-> "q", R |-> "r", S |-> "s", T |-> "t", U |-> "u", V |-> "v", W |-> "w", X |-> "x", Y |-> "y", Z |-> "z"]

\* str.upper() of one character: a string, since the result may be longer
upper_char(c) ==
    IF c \in DOMAIN ToUpper THEN <<ToUpper[c]>>
    ELSE IF c = SZ THEN <<"S", "S">> ELSE <<c>>

\* str.lower() of one character
lower_char(c) == IF c \in DOMAIN ToLower THEN ToLower[c] ELSE c

RECURSIVE upper_from(_, _)
upper_from(s, i) ==
    IF i > Len(s) THEN <<>> ELSE upper_char(s[i]) \o upper_from(s, i + 1)

\* s.upper()
upper(s) == upper_from(s, 1)

\* s.lower()
lower(s) == [i \in 1..Len(s) |-> lower_char(s[i])]

\* s[a:b] and s[a:] for 0 <= a, 0 <= b
slice(s, a, b) == SubSeq(s, a + 1, IF b < Len(s) THEN b ELSE Len(s))
slice_from(s, a) == SubSeq(s, a + 1, Len(s))

\* sub occurs in s at 0-based offset i
occurs_at(s, sub, i) ==
    /\ i + Len(sub) <= Len(s)
    /\ \A j \in 1..Len(sub) : s[i + j] = sub[j]

RECURSIVE find_from(_, _, _)
find_from(s, sub, i) ==
    IF i + Len(sub) > Len(s) THEN -1
    ELSE IF occurs_at(s, sub, i) THEN i
    ELSE find_from(s, sub, i + 1)

\* s.find(sub): the lowest offset of sub in s, -1 when there is none
find(s, sub) == find_from(s, sub, 0)

\* sub in s
contains(sub, s) == find(s, sub) # -1

startswith(s, prefix) == occurs_at(s, prefix, 0)

\* s.split(sep), sep non-empty: non-overlapping occurrences, left to right
RECURSIVE split(_, _)
split(s, sep) ==
    LET i == find(s, sep)
    IN  IF i = -1 THEN <<s>>
        ELSE <<slice(s, 0, i)>> \o split(slice_from(s, i + Len(sep)), sep)

isspace(c) == c \in {" ", "\n", "\r", "\t"}

\* s.strip()
strip(s) ==
    LET keep == {i \in 1..Len(s) : ~isspace(s[i])}
    IN  IF keep = {} THEN <<>>
        ELSE SubSeq(s, CHOOSE i \in keep : \A j \in keep : i <= j,
                       CHOOSE i \in keep : \A j \in keep : j <= i)

\* min(list) of a non-empty list of integers
min(xs) == CHOOSE x \in {xs[i] : i \in 1..Len(xs)} : \A i \in 1..Len(xs) : x <= xs[i]

\* Python's None, for an Optional[str]: a value that is no str
None == <<"None">>

-----------------------------------------------------------------------------
(* String literals of the server *)

FENCE_SQL == <<BT, BT, BT, "s", "q", "l">>
FENCE == <<BT, BT, BT>>
SELECT == <<"S", "E", "L", "E", "C", "T">>
SQL_TAG == <<"s", "q", "l">>
BLANK_LINE == <<"\n", "\n">>
CRLF_BLANK_LINE == <<"\r", "\n", "\r", "\n">>
PERIOD_SPACE == <<".", " ">>
PERIOD_NEWLINE == <<".", "\n">>
MSG_NO_SQL == <<"C", "o", "u", "l", "d", " ", "n", "o", "t", " ", "g", "e", "n", "e", "r", "a", "t", "e", " ", "v", "a", "l", "i", "d", " ", "S", "Q", "L", " ", "q", "u", "e", "r", "y">>
MSG_ONLY_SELECT == <<"O", "n", "l", "y", " ", "S", "E", "L", "E", "C", "T", " ", "q", "u", "e", "r", "i", "e", "s", " ", "a", "r", "e", " ", "a", "l", "l", "o", "w", "e", "d">>
MSG_SECURITY == <<"F", "o", "r", " ", "s", "e", "c", "u", "r", "i", "t", "y", " ", "r", "e", "a", "s", "o", "n", "s", ",", " ", "o", "n", "l", "y", " ", "S", "E", "L", "E", "C", "T", " ", "q", "u", "e", "r", "i", "e", "s", " ", "a", "r", "e", " ", "p", "e", "r", "m", "i", "t", "t", "e", "d", ".">>
MSG_EXEC_ERROR == <<"E", "r", "r", "o", "r", " ", "e", "x", "e", "c", "u", "t", "i", "n", "g", " ", "q", "u", "e", "r", "y", ":", " ">>
MSG_LIST_ERROR == <<"E", "r", "r", "o", "r", " ", "l", "i", "s", "t", "i", "n", "g", " ", "t", "a", "b", "l", "e", "s", ":", " ">>
COLON_SPACE == <<":", " ">>
MSG_SCHEMA_ERROR == <<"E", "r", "r", "o", "r", " ", "g", "e", "t", "t", "i", "n", "g", " ", "s", "c", "h", "e", "m", "a", " ", "f", "o", "r", " ", "t", "a", "b", "l", "e", " ">>
CTX_PREFIX == <<"A", "v", "a", "i", "l", "a", "b", "l", "e", " ", "t", "a", "b", "l", "e", "s", ":", " ">>
CTX_SEP == <<",", " ">>
CTX_SUFFIX == <<".", " ">>
PROMPT_USER == <<"\n", "U", "s", "e", "r", " ", "q", "u", "e", "r", "y", ":", " ">>
PROMPT_TAIL == <<"\n", "G", "e", "n", "e", "r", "a", "t", "e", " ", "a", "n", "d", " ", "e", "x", "e", "c", "u", "t", "e", " ", "a", "n", " ", "a", "p", "p", "r", "o", "p", "r", "i", "a", "t", "e", " ", "S", "Q", "L", " ", "q", "u", "e", "r", "y", ".">>

-----------------------------------------------------------------------------
(* validate_query and _extract_sql_query *)

dangerous_keywords ==
    << <<"i","n","s","e","r","t">>, <<"u","p","d","a","t","e">>,
       <<"d","e","l","e","t","e">>, <<"d","r","o","p">>,
       <<"a","l","t","e","r">>, <<"c","r","e","a","t","e">> >>

\* validate_query without the lower(): the denylist matched case-sensitively
validate_query_case_sensitive(q) ==
    ~ \E k \in 1..Len(dangerous_keywords) : contains(dangerous_keywords[k], q)

\* True when the query may run
validate_query(q) ==
    ~ \E k \in 1..Len(dangerous_keywords) : contains(dangerous_keywords[k], lower(q))

\* the end positions found in the rule-3 candidate (positions that are -1 dropped)
end_positions(q) ==
    SelectSeq(<<find(q, BLANK_LINE), find(q, CRLF_BLANK_LINE),
                find(q, PERIOD_SPACE), find(q, PERIOD_NEWLINE)>>,
              LAMBDA pos : pos # -1)

\* _extract_sql_query whose last branch returns the stripped response instead of None
_extract_sql_query_no_absence(response) ==
    IF contains(FENCE_SQL, response)
    THEN strip(split(split(response, FENCE_SQL)[2], FENCE)[1])
    ELSE IF contains(FENCE, response) /\ contains(SELECT, upper(response))
    THEN LET code_blocks == split(response, FENCE)
             hits == {i \in 1..Len(code_blocks) :
                        i % 2 = 0 /\ contains(SELECT, upper(code_blocks[i]))}
         IN  IF hits # {}
             THEN LET q == strip(code_blocks[CHOOSE i \in hits : \A j \in hits : i <= j])
                  IN  IF startswith(q, SQL_TAG) THEN strip(slice_from(q, 3)) ELSE q
             ELSE None
    ELSE IF contains(SELECT, upper(response))
    THEN LET q == slice_from(response, find(upper(response), SELECT))
         IN  IF end_positions(q) # <<>>
             THEN strip(slice(q, 0, min(end_positions(q))))
             ELSE strip(q)
    ELSE strip(response)

\* _extract_sql_query with its first two branches in the other order
_extract_sql_query_blocks_first(response) ==
    LET code_blocks == split(response, FENCE)
        hits == {i \in 1..Len(code_blocks) :
                   i % 2 = 0 /\ contains(SELECT, upper(code_blocks[i]))}
    IN  IF contains(FENCE, response) /\ hits # {}
        THEN LET q == strip(code_blocks[CHOOSE i \in hits : \A j \in hits : i <= j])
             IN  IF startswith(q, SQL_TAG) THEN strip(slice_from(q, 3)) ELSE q
        ELSE IF contains(FENCE_SQL, response)
        THEN strip(split(split(response, FENCE_SQL)[2], FENCE)[1])
        ELSE IF contains(SELECT, upper(response))
        THEN LET q == slice_from(response, find(upper(response), SELECT))
             IN  IF end_positions(q) # <<>>
                 THEN strip(slice(q, 0, min(end_positions(q))))
                 ELSE strip(q)
        ELSE None

\* _extract_sql_query returning the first fenced block without looking for SELECT in it
_extract_sql_query_first_block(response) ==
    IF contains(FENCE_SQL, response)
    THEN strip(split(split(response, FENCE_SQL)[2], FENCE)[1])
    ELSE IF contains(FENCE, response) /\ contains(SELECT, upper(response))
    THEN LET q == strip(split(response, FENCE)[2])
         IN  IF startswith(q, SQL_TAG) THEN strip(slice_from(q, 3)) ELSE q
    ELSE IF contains(SELECT, upper(response))
    THEN LET q == slice_from(response, find(upper(response), SELECT))
         IN  IF end_positions(q) # <<>>
             THEN strip(slice(q, 0, min(end_positions(q))))
             ELSE strip(q)
    ELSE None

\* _extract_sql_query whose first branch takes any fence for a SQL-tagged one
_extract_sql_query_any_fence(response) ==
    IF contains(FENCE, response)
    THEN LET q == strip(split(response, FENCE)[2])
         IN  IF startswith(q, SQL_TAG) THEN strip(slice_from(q, 3)) ELSE q
    ELSE IF contains(SELECT, upper(response))
    THEN LET q == slice_from(response, find(upper(response), SELECT))
         IN  IF end_positions(q) # <<>>
             THEN strip(slice(q, 0, min(end_positions(q))))
             ELSE strip(q)
    ELSE None

\* _extract_sql_query whose second branch looks at closed blocks only: the segments
\* that a fence delimiter follows
_extract_sql_query_closed_blocks(response) ==
    IF contains(FENCE_SQL, response)
    THEN strip(split(split(response, FENCE_SQL)[2], FENCE)[1])
    ELSE IF contains(FENCE, response) /\ contains(SELECT, upper(response))
    THEN LET code_blocks == split(response, FENCE)
             hits == {i \in 1..(Len(code_blocks) - 1) :
                        i % 2 = 0 /\ contains(SELECT, upper(code_blocks[i]))}
         IN  IF hits # {}
             THEN LET q == strip(code_blocks[CHOOSE i \in hits : \A j \in hits : i <= j])
                  IN  IF startswith(q, SQL_TAG) THEN strip(slice_from(q, 3)) ELSE q
             ELSE None
    ELSE IF contains(SELECT, upper(response))
    THEN LET q == slice_from(response, find(upper(response), SELECT))
         IN  IF end_positions(q) # <<>>
             THEN strip(slice(q, 0, min(end_positions(q))))
             ELSE strip(q)
    ELSE None

_extract_sql_query(response) ==
    IF contains(FENCE_SQL, response)
    THEN strip(split(split(response, FENCE_SQL)[2], FENCE)[1])
    ELSE IF contains(FENCE, response) /\ contains(SELECT, upper(response))
    THEN LET code_blocks == split(response, FENCE)
             \* range(1, len(code_blocks), 2), as 1-based indices
             hits == {i \in 1..Len(code_blocks) :
                        i % 2 = 0 /\ contains(SELECT, upper(code_blocks[i]))}
         IN  IF hits # {}
             THEN LET q == strip(code_blocks[CHOOSE i \in hits : \A j \in hits : i <= j])
                  IN  IF startswith(q, SQL_TAG) THEN strip(slice_from(q, 3)) ELSE q
             \* the loop ends without a return: `return query` reads an unbound
             \* local, and the UnboundLocalError is caught by the except clause
             ELSE None
    ELSE IF contains(SELECT, upper(response))
    THEN LET q == slice_from(response, find(upper(response), SELECT))
         IN  IF end_positions(q) # <<>>
             THEN strip(slice(q, 0, min(end_positions(q))))
             ELSE strip(q)
    ELSE None

-----------------------------------------------------------------------------
(* Configuration read from the environment in __init__ *)

PROJECT_ID == <<"p">>
DATASET_ID == <<"d">>

\* f"{self.project_id}.{self.dataset_id}"
dataset_ref == PROJECT_ID \o <<".">> \o DATASET_ID

-----------------------------------------------------------------------------
(* What the collaborators and the callers may supply *)

\* the number of pieces a model response with fences is put together from
MaxFencePieces == 4
\* the number of pieces a model response without fences is put together from
MaxMarkerPieces == 3

RECURSIVE TextsOf(_, _)
\* every concatenation of at most n of the pieces
TextsOf(pieces, n) ==
    IF n = 0 THEN {<<>>}
    ELSE LET shorter == TextsOf(pieces, n - 1)
         IN  shorter \cup {t \o p : t \in shorter, p \in pieces}

MixedSelect == <<"S", "e", "l", "e", "c", "t">>

FencePieces == {FENCE, SQL_TAG, MixedSelect, BLANK_LINE, <<"x">>}
MarkerPieces == {MixedSelect, <<"x">>, <<SZ>>, PERIOD_SPACE, BLANK_LINE,
                 PERIOD_NEWLINE, CRLF_BLANK_LINE}

LLM_DROP == <<BT, BT, BT, "s", "q", "l", "\n", "D", "R", "O", "P", " ", "T", "A", "B", "L", "E", " ", "x", "\n", BT, BT, BT>>
LLM_CREATED == <<"U", "s", "e", " ", "S", "E", "L", "E", "C", "T", " ", "c", "r", "e", "a", "t", "e", "d", "_", "a", "t", " ", "F", "R", "O", "M", " ", "e", "v", "e", "n", "t", "s">>
LLM_SALES == <<"H", "e", "r", "e", " ", "y", "o", "u", " ", "g", "o", ":", "\n", BT, BT, BT, "s", "q", "l", "\n", "S", "E", "L", "E", "C", "T", " ", "*", " ", "F", "R", "O", "M", " ", "s", "a", "l", "e", "s", " ", "L", "I", "M", "I", "T", " ", "1", "0", "\n", BT, BT, BT, "\n", "D", "o", "n", "e", ".">>
LLM_PROSE == <<"I", " ", "c", "a", "n", "n", "o", "t", " ", "a", "n", "s", "w", "e", "r", " ", "t", "h", "a", "t", ".">>

\* the texts self.llm.invoke may return
LlmResponses ==
    TextsOf(FencePieces, MaxFencePieces) \cup TextsOf(MarkerPieces, MaxMarkerPieces)
        \cup {LLM_DROP, LLM_CREATED, LLM_SALES, LLM_PROSE}

EX_DROP == <<"D", "R", "O", "P", " ", "T", "A", "B", "L", "E", " ", "x">>
EX_CREATE == <<"c", "r", "e", "a", "t", "e", " ", "t", "a", "b", "l", "e", " ", "x", "(", ".", ".", ".", ")">>
EX_CREATED_AT == <<"S", "E", "L", "E", "C", "T", " ", "c", "r", "e", "a", "t", "e", "d", "_", "a", "t", " ", "F", "R", "O", "M", " ", "e", "v", "e", "n", "t", "s">>
EX_SALES == <<"S", "E", "L", "E", "C", "T", " ", "*", " ", "F", "R", "O", "M", " ", "s", "a", "l", "e", "s", " ", "L", "I", "M", "I", "T", " ", "1", "0">>
EX_SELECT_PREFIX == <<"S", "E", "L", "E", "C", "T", " ">>
EX_AT_SUFFIX == <<"d", "_", "a", "t">>

\* a denylisted word in lower, upper and capitalised letters, and cut short
Spellings(w) == {w, upper(w), upper(<<Head(w)>>) \o Tail(w), SubSeq(w, 1, Len(w) - 1)}

\* the query strings a caller may pass to execute_sql_query
SqlQueries ==
    {EX_DROP, EX_CREATE, EX_CREATED_AT, EX_SALES, <<>>}
        \cup {pre \o w \o post :
                pre \in {<<>>, EX_SELECT_PREFIX},
                w \in UNION {Spellings(dangerous_keywords[k]) : k \in 1..Len(dangerous_keywords)},
                post \in {<<>>, EX_AT_SUFFIX}}

Q1 == <<"t", "o", "p", " ", "s", "a", "l", "e", "s">>
Q2 == <<"d", "r", "o", "p", " ", "i", "t">>
T_SALES == <<"s", "a", "l", "e", "s">>
T_EVENTS == <<"e", "v", "e", "n", "t", "s">>
E1 == <<"4", "0", "4", " ", "N", "o", "t", " ", "f", "o", "u", "n", "d">>
E2 == <<"t", "i", "m", "e", "o", "u", "t">>
R1 == <<"[", "(", "1", ",", ")", "]">>
R2 == <<>>
F_NAME == <<"i", "d">>
F_TYPE == <<"I", "N", "T", "6", "4">>
F_DESC == <<"k", "e", "y">>

\* the questions a caller may pass to execute_nl_query
Questions == {Q1, Q2}
\* the table ids the catalog may list
TableLists == {<<>>, <<T_SALES, T_EVENTS>>}
\* the table names a caller may pass to get_table_schema
TableNames == {T_SALES, T_EVENTS}
\* str(e) of the exceptions a collaborator may raise
Errors == {E1, E2}
\* what self.db.run may return
RunResults == {R1, R2}
\* the tables self.client.get_table may return: schema, num_rows, num_bytes
Tables ==
    { [schema |-> <<>>, num_rows |-> 0, num_bytes |-> 0],
      [schema |-> <<[name |-> F_NAME, field_type |-> F_TYPE, description |-> F_DESC]>>,
       num_rows |-> 1, num_bytes |-> 8] }

-----------------------------------------------------------------------------
(* The web client: its constants and what a process is *)

MCP_SERVER_PATH ==
    <<"/", "a", "p", "p", "/", "s", "q", "l", "_", "m", "c", "p", "_", "s", "e", "r", "v",
      "e", "r", ".", "p", "y">>
\* the pattern start_mcp_server scans the command lines for
SERVER_SCRIPT ==
    <<"s", "q", "l", "_", "m", "c", "p", "_", "s", "e", "r", "v", "e", "r", ".", "p", "y">>
PYTHON == <<"p", "y", "t", "h", "o", "n">>
\* ["python", MCP_SERVER_PATH]
server_cmd == <<PYTHON, MCP_SERVER_PATH>>
\* a command line that names the script without being a server: an editor on the file
EDITOR_CMD == <<<<"v", "i">>, SERVER_SCRIPT>>

\* the browser sessions; each runs the script in a thread of its own
NumSessions == 2
Sessions == 1..NumSessions

\* a running process: who started it (subprocess.Popen in start_mcp_server, stdio_client
\* in get_tools and call_tool, or somebody outside the web client), for which session,
\* and its command line
Process(by, s, cmdline) == [by |-> by, session |-> s, cmdline |-> cmdline]
popen_process(s) == Process("Popen", s, server_cmd)
stdio_process(s) == Process("stdio_client", s, server_cmd)
other_process == Process("other", 0, EDITOR_CMD)

\* the buttons of the page that matter here, "none" for a run started otherwise
Buttons == {"none", "restart", "execute"}

\* the tool list a server answers list_tools with
TOOLS == <<"execute_nl_query", "execute_sql_query", "list_tables", "get_table_schema">>

-----------------------------------------------------------------------------
(* The tool handlers *)

\* a local that is not bound (yet)
Unbound == <<"unbound">>
\* no return value: the handler has not returned
NoResult == [pending |-> TRUE]

\* one call made by a handler, as a mock would record it: what was called, with what, and
\* whether the call raised
Call(fn, arg, raised) == [fn |-> fn, arg |-> arg, raised |-> raised]

RECURSIVE join(_, _)
\* sep.join(xs)
join(sep, xs) ==
    IF xs = <<>> THEN <<>>
    ELSE IF Len(xs) = 1 THEN xs[1]
    ELSE xs[1] \o sep \o join(sep, Tail(xs))

\* the prompt execute_nl_query builds
prompt_of(tables, question) ==
    CTX_PREFIX \o join(CTX_SEP, tables) \o CTX_SUFFIX
        \o PROMPT_USER \o question \o PROMPT_TAIL

\* the handler ends: it returned r, or an exception left it; e is the exception a
\* collaborator raised in this request (caught by the handler or not), None without one
Ends(name, arg, response, sq, how, r, e, cs) ==
    /\ op' = name
    /\ query' = arg
    /\ llm_response' = response
    /\ sql_query' = sq
    /\ outcome' = how
    /\ ret' = r
    /\ exc' = e
    /\ calls' = cs
    /\ UNCHANGED ui_vars

Init ==
    /\ op = "none"
    /\ query = None
    /\ llm_response = Unbound
    /\ sql_query = Unbound
    /\ outcome = "idle"
    /\ ret = NoResult
    /\ exc = None
    /\ calls = <<>>
    /\ processes = {}
    /\ pc = [s \in Sessions |-> "idle"]
    /\ button = [s \in Sessions |-> "none"]
    /\ site = [s \in Sessions |-> "none"]
    /\ server_started = [s \in Sessions |-> FALSE]
    /\ tools = [s \in Sessions |-> <<>>]

\* execute_nl_query without the safety gate between extraction and execution
execute_nl_query_ungated(question) ==
    /\ outcome = "idle"
    /\ \E tables \in TableLists, response \in LlmResponses :
         \E sq \in {_extract_sql_query(response)} :
         LET c3 == <<Call("client.list_tables", dataset_ref, FALSE),
                     Call("llm.invoke", prompt_of(tables, question), FALSE),
                     Call("_extract_sql_query", response, FALSE)>>
         IN  IF sq = None \/ sq = <<>>
             THEN Ends("execute_nl_query", question, response, sq, "returned",
                       [error |-> MSG_NO_SQL, explanation |-> response], None, c3)
             ELSE \E result \in RunResults :
                       Ends("execute_nl_query", question, response, sq, "returned",
                            [query |-> sq, result |-> result, explanation |-> response],
                            None, Append(c3, Call("db.run", sq, FALSE)))

execute_nl_query(question) ==
    /\ outcome = "idle"
    /\ \* get_available_tables is called outside any try
       \/ \E e \in Errors :
            Ends("execute_nl_query", question, Unbound, Unbound, "raised", NoResult, e,
                 <<Call("client.list_tables", dataset_ref, TRUE)>>)
       \/ \E tables \in TableLists :
            LET c1 == <<Call("client.list_tables", dataset_ref, FALSE)>>
                prompt == prompt_of(tables, question)
            IN  \* and so is self.llm.invoke
                \/ \E e \in Errors :
                     Ends("execute_nl_query", question, Unbound, Unbound, "raised", NoResult,
                          e, Append(c1, Call("llm.invoke", prompt, TRUE)))
                \/ \E response \in LlmResponses :
                     \E sq \in {_extract_sql_query(response)} :
                     LET c2 == Append(c1, Call("llm.invoke", prompt, FALSE))
                         c3 == Append(c2, Call("_extract_sql_query", response, FALSE))
                         c4 == Append(c3, Call("validate_query", sq, FALSE))
                     IN  \* `not sql_query`: None and the empty string
                         IF sq = None \/ sq = <<>>
                         THEN Ends("execute_nl_query", question, response, sq, "returned",
                                   [error |-> MSG_NO_SQL, explanation |-> response],
                                   None, c3)
                         ELSE IF ~validate_query(sq)
                         THEN Ends("execute_nl_query", question, response, sq, "returned",
                                   [error |-> MSG_ONLY_SELECT, explanation |-> MSG_SECURITY],
                                   None, c4)
                         ELSE \/ \E result \in RunResults :
                                   Ends("execute_nl_query", question, response, sq,
                                        "returned",
                                        [query |-> sq, result |-> result,
                                         explanation |-> response],
                                        None, Append(c4, Call("db.run", sq, FALSE)))
                              \/ \E e \in Errors :
                                   Ends("execute_nl_query", question, response, sq,
                                        "returned",
                                        [error |-> MSG_EXEC_ERROR \o e, query |-> sq,
                                         explanation |-> response],
                                        e, Append(c4, Call("db.run", sq, TRUE)))

\* execute_sql_query running the query before it asks the gate
execute_sql_query_run_first(q) ==
    /\ outcome = "idle"
    /\ LET c1 == <<Call("db.run", q, FALSE), Call("validate_query", q, FALSE)>>
       IN  IF ~validate_query(q)
           THEN Ends("execute_sql_query", q, Unbound, Unbound, "returned",
                     [error |-> MSG_ONLY_SELECT, explanation |-> MSG_SECURITY], None, c1)
           ELSE \E result \in RunResults :
                     Ends("execute_sql_query", q, Unbound, Unbound, "returned",
                          [query |-> q, result |-> result, success |-> TRUE], None, c1)

\* execute_sql_query reporting a failed run with an empty result next to the error
execute_sql_query_result_on_error(q) ==
    /\ outcome = "idle"
    /\ LET c1 == <<Call("validate_query", q, FALSE)>>
       IN  IF ~validate_query(q)
           THEN Ends("execute_sql_query", q, Unbound, Unbound, "returned",
                     [error |-> MSG_ONLY_SELECT, explanation |-> MSG_SECURITY], None, c1)
           ELSE \/ \E result \in RunResults :
                     Ends("execute_sql_query", q, Unbound, Unbound, "returned",
                          [query |-> q, result |-> result, success |-> TRUE], None,
                          Append(c1, Call("db.run", q, FALSE)))
                \/ \E e \in Errors :
                     Ends("execute_sql_query", q, Unbound, Unbound, "returned",
                          [error |-> MSG_EXEC_ERROR \o e, query |-> q, result |-> <<>>,
                           success |-> FALSE],
                          e, Append(c1, Call("db.run", q, TRUE)))

execute_sql_query(q) ==
    /\ outcome = "idle"
    /\ LET c1 == <<Call("validate_query", q, FALSE)>>
       IN  IF ~validate_query(q)
           THEN Ends("execute_sql_query", q, Unbound, Unbound, "returned",
                     [error |-> MSG_ONLY_SELECT, explanation |-> MSG_SECURITY], None, c1)
           ELSE \/ \E result \in RunResults :
                     Ends("execute_sql_query", q, Unbound, Unbound, "returned",
                          [query |-> q, result |-> result, success |-> TRUE], None,
                          Append(c1, Call("db.run", q, FALSE)))
                \/ \E e \in Errors :
                     Ends("execute_sql_query", q, Unbound, Unbound, "returned",
                          [error |-> MSG_EXEC_ERROR \o e, query |-> q, success |-> FALSE],
                          e, Append(c1, Call("db.run", q, TRUE)))

\* list_tables reporting a failure of the catalog without the exception's message
list_tables_without_message ==
    /\ outcome = "idle"
    /\ \/ \E tables \in TableLists :
            Ends("list_tables", None, Unbound, Unbound, "returned",
                 [tables |-> tables, project_id |-> PROJECT_ID,
                  dataset_id |-> DATASET_ID, count |-> Len(tables)], None,
                 <<Call("client.list_tables", dataset_ref, FALSE)>>)
       \/ \E e \in Errors :
            Ends("list_tables", None, Unbound, Unbound, "returned",
                 [error |-> MSG_LIST_ERROR], e,
                 <<Call("client.list_tables", dataset_ref, TRUE)>>)

list_tables ==
    /\ outcome = "idle"
    /\ \/ \E tables \in TableLists :
            Ends("list_tables", None, Unbound, Unbound, "returned",
                 [tables |-> tables, project_id |-> PROJECT_ID,
                  dataset_id |-> DATASET_ID, count |-> Len(tables)], None,
                 <<Call("client.list_tables", dataset_ref, FALSE)>>)
       \/ \E e \in Errors :
            Ends("list_tables", None, Unbound, Unbound, "returned",
                 [error |-> MSG_LIST_ERROR \o e], e,
                 <<Call("client.list_tables", dataset_ref, TRUE)>>)

get_table_schema(table_name) ==
    /\ outcome = "idle"
    /\ \/ \E table \in Tables :
            Ends("get_table_schema", table_name, Unbound, Unbound, "returned",
                 [table_name |-> table_name,
                  schema |-> [i \in 1..Len(table.schema) |->
                                [name |-> table.schema[i].name,
                                 type |-> table.schema[i].field_type,
                                 description |-> table.schema[i].description]],
                  num_rows |-> table.num_rows,
                  size_bytes |-> table.num_bytes], None,
                 <<Call("client.get_table", table_name, FALSE)>>)
       \/ \E e \in Errors :
            Ends("get_table_schema", table_name, Unbound, Unbound, "returned",
                 [error |-> MSG_SCHEMA_ERROR \o table_name \o COLON_SPACE \o e], e,
                 <<Call("client.get_table", table_name, TRUE)>>)

\* server.run(): the reply (or the fault) goes to the caller, the handler's locals are
\* gone, and the server waits for the next request
run ==
    /\ outcome # "idle"
    /\ Ends("none", None, Unbound, Unbound, "idle", NoResult, None, <<>>)

Next ==
    \/ \E question \in Questions : execute_nl_query(question)
    \/ \E q \in SqlQueries : execute_sql_query(q)
    \/ list_tables
    \/ \E table_name \in TableNames : get_table_schema(table_name)
    \/ run

Spec == Init /\ [][Next]_vars

-----------------------------------------------------------------------------
(* The web client: a run of the script per user interaction. The statements that only  *)
(* read and write the session's own state run together with the step before them; a    *)
(* step ends where the script looks at, starts or waits for a process.                  *)

\* is_process_running(pattern): some running process has the pattern in an argument of
\* its command line
is_process_running(pattern) ==
    \E proc \in processes :
        \E i \in DOMAIN proc.cmdline : contains(pattern, proc.cmdline[i])

\* the positions inside start_mcp_server: the scan, the Popen, the poll after the sleep
InStartMcpServer == {"L84", "L90", "L100"}

\* where a session goes next: its position, the line its call returns to, and the button
\* press not yet looked at
At(l, r, b) == [pc |-> l, site |-> r, button |-> b]
Done == At("idle", "none", "none")

\* lines 251-258: the Execute Query button calls the tool; then the run is over
tab_execute(b) ==
    IF b = "execute" THEN At("stdio_client", "L258", "none") ELSE Done

\* lines 212-217: tool discovery when the server counts as started and no tools are known
sidebar_tools(started, known, b) ==
    IF started /\ known = <<>> THEN At("stdio_client", "L217", b) ELSE tab_execute(b)

\* lines 208-209: if st.button("Restart Server"): ... = start_mcp_server()
sidebar_restart(started, known, b) ==
    IF b = "restart" THEN At("L84", "L209", "none") ELSE sidebar_tools(started, known, b)

\* lines 200-201: if not st.session_state.server_started: ... = start_mcp_server()
sidebar_start(started, known, b) ==
    IF ~started THEN At("L84", "L201", b) ELSE sidebar_restart(started, known, b)

\* session s goes on at k
Continue(s, k) ==
    /\ pc' = [pc EXCEPT ![s] = k.pc]
    /\ site' = [site EXCEPT ![s] = k.site]
    /\ button' = [button EXCEPT ![s] = k.button]

\* start_mcp_server returns value to the assignment that called it (line 201 or 209),
\* and the script goes on below it
Returns(s, value) ==
    /\ server_started' = [server_started EXCEPT ![s] = value]
    /\ Continue(s, IF site[s] = "L201"
                   THEN sidebar_restart(value, tools[s], button[s])
                   ELSE sidebar_tools(value, tools[s], button[s]))

\* a user interaction (the page load, a button press) starts a run of the script
script_run(s) ==
    /\ pc[s] = "idle"
    /\ \E b \in Buttons : Continue(s, sidebar_start(server_started[s], tools[s], b))
    /\ UNCHANGED <<server_vars, processes, server_started, tools>>

\* start_mcp_server entering the spawn whatever the liveness scan finds
start_mcp_server_unchecked(s) ==
    /\ pc[s] = "L84"
    /\ Continue(s, At("L90", site[s], button[s]))
    /\ UNCHANGED <<server_vars, processes, server_started, tools>>

\* lines 84-86: the liveness scan, and the return of True when it finds a process
start_mcp_server(s) ==
    /\ pc[s] = "L84"
    /\ IF is_process_running(SERVER_SCRIPT)
       THEN Returns(s, TRUE)
       ELSE Continue(s, At("L90", site[s], button[s])) /\ UNCHANGED server_started
    /\ UNCHANGED <<server_vars, processes, tools>>

\* lines 88-98 and 110-112: subprocess.Popen starts the server, or raises
Popen(s) ==
    /\ pc[s] = "L90"
    /\ \/ /\ processes' = processes \cup {popen_process(s)}
          /\ Continue(s, At("L100", site[s], button[s]))
          /\ UNCHANGED server_started
       \/ /\ Returns(s, FALSE)
          /\ UNCHANGED processes
    /\ UNCHANGED <<server_vars, tools>>

\* lines 100-108: after time.sleep(2), process.poll() tells whether the server still runs
poll(s) ==
    /\ pc[s] = "L100"
    /\ Returns(s, popen_process(s) \in processes)
    /\ UNCHANGED <<server_vars, processes, tools>>

\* the end of a remote call, at the line that made it: get_tools returns the tool list,
\* or [] after an exception; call_tool returns a result either way
Answered(s, ok) ==
    /\ tools' = [tools EXCEPT ![s] = IF site[s] = "L258" THEN @
                                     ELSE IF ok THEN TOOLS ELSE <<>>]
    /\ Continue(s, IF site[s] = "L217" THEN tab_execute(button[s]) ELSE Done)

\* lines 120-127 of get_tools and 151-158 of call_tool: stdio_client starts a server of
\* its own for this call, as a subprocess on pipes; or the start raises
stdio_client(s) ==
    /\ pc[s] = "stdio_client"
    /\ \/ /\ processes' = processes \cup {stdio_process(s)}
          /\ Continue(s, At("ClientSession", site[s], button[s]))
          /\ UNCHANGED tools
       \/ /\ Answered(s, FALSE)
          /\ UNCHANGED processes
    /\ UNCHANGED <<server_vars, server_started>>

\* lines 128-137 and 159-172: the call is served by the subprocess on the pipes (and
\* fails when that process is gone); leaving stdio_client ends the subprocess
ClientSession(s) ==
    /\ pc[s] = "ClientSession"
    /\ Answered(s, stdio_process(s) \in processes)
    /\ processes' = processes \ {stdio_process(s)}
    /\ UNCHANGED <<server_vars, server_started>>

\* a running process ends by itself
process_exits ==
    /\ \E proc \in processes : processes' = processes \ {proc}
    /\ UNCHANGED <<server_vars, pc, button, site, server_started, tools>>

\* somebody outside the web client starts a process with the script on its command line
other_starts ==
    /\ other_process \notin processes
    /\ processes' = processes \cup {other_process}
    /\ UNCHANGED <<server_vars, pc, button, site, server_started, tools>>

NextUI ==
    \/ \E s \in Sessions : script_run(s)
    \/ \E s \in Sessions : start_mcp_server(s)
    \/ \E s \in Sessions : Popen(s)
    \/ \E s \in Sessions : poll(s)
    \/ \E s \in Sessions : stdio_client(s)
    \/ \E s \in Sessions : ClientSession(s)
    \/ process_exits
    \/ other_starts

\* the web client and the processes, the tool server's handlers left aside
SpecUI == Init /\ [][NextUI]_vars

-----------------------------------------------------------------------------
(* Properties of the handlers *)

\* the calls that reach the warehouse client: catalog listing, table lookup, query run
WarehouseFns == {"client.list_tables", "client.get_table", "db.run"}
WarehouseCalls == SelectSeq(calls, LAMBDA c : c.fn \in WarehouseFns)
\* the places in calls where fn was called
Made(fn) == {i \in DOMAIN calls : calls[i].fn = fn}
\* the fixed result of a gate rejection
Rejection == [error |-> MSG_ONLY_SELECT, explanation |-> MSG_SECURITY]

\* C1: whichever collaborator call raises, each of the four operations returns a result
\* with an "error" key, and no exception leaves the operation.
C1_NothingPropagates ==
    /\ outcome # "raised"
    /\ (outcome = "returned" /\ \E i \in DOMAIN calls : calls[i].raised)
         => "error" \in DOMAIN ret

\* C2: execute_sql_query with a query the gate rejects returns the fixed rejection and
\* makes no call on the warehouse; with a query the gate accepts it calls the warehouse
\* once, with the query unchanged.
C2_RejectedNeverReachesWarehouse ==
    op = "execute_sql_query" =>
        IF ~validate_query(query)
        THEN ret = Rejection /\ WarehouseCalls = <<>>
        ELSE /\ Len(WarehouseCalls) = 1
             /\ WarehouseCalls[1].fn = "db.run"
             /\ WarehouseCalls[1].arg = query

C2_Witness ==
    /\ op = "execute_sql_query"
    /\ query = EX_DROP
    /\ ret = Rejection
    /\ Made("db.run") = {}

\* plain prose with no SELECT: some text, no fence delimiter in it, and no SELECT in any
\* letter case (none in the uppercased text)
IsProseWithoutSelect(text) ==
    text # <<>> /\ ~contains(FENCE, text) /\ ~contains(SELECT, upper(text))

\* C3, as claimed: when the model returns plain prose with no SELECT, execute_nl_query
\* returns the extraction failure (the error and the raw model text) and the warehouse
\* client is not invoked at any point of the request.
C3_ProseNeverTouchesWarehouse ==
    (op = "execute_nl_query" /\ llm_response # Unbound
        /\ IsProseWithoutSelect(llm_response))
    => /\ ret = [error |-> MSG_NO_SQL, explanation |-> llm_response]
       /\ WarehouseCalls = <<>>

\* C3, amended: when the model returns plain prose with no SELECT, execute_nl_query
\* returns the extraction failure and never runs a query; its one call on the warehouse
\* client is the catalog listing it makes before it invokes the model.
C3_ProseNeverRunsQuery ==
    (op = "execute_nl_query" /\ llm_response # Unbound
        /\ IsProseWithoutSelect(llm_response))
    => /\ ret = [error |-> MSG_NO_SQL, explanation |-> llm_response]
       /\ Made("db.run") = {}
       /\ WarehouseCalls = <<Call("client.list_tables", dataset_ref, FALSE)>>
       /\ \A i \in Made("client.list_tables"), j \in Made("llm.invoke") : i < j

C3_Witness ==
    /\ op = "execute_nl_query"
    /\ llm_response = LLM_PROSE
    /\ outcome = "returned"
    /\ ret = [error |-> MSG_NO_SQL, explanation |-> LLM_PROSE]

\* C4: in execute_nl_query the model is invoked at most once, extraction is applied to
\* the model's raw output, the gate to the extracted candidate, and the query run comes
\* last: at most once, with exactly the extracted candidate, and only when the candidate
\* is neither None nor empty and the gate accepts it.
C4_NlStepsInOrder ==
    op = "execute_nl_query" =>
        /\ Cardinality(Made("llm.invoke")) <= 1
        /\ Cardinality(Made("db.run")) <= 1
        /\ \A i \in Made("_extract_sql_query") :
             /\ \E j \in Made("llm.invoke") : j < i /\ ~calls[j].raised
             /\ calls[i].arg = llm_response
             /\ sql_query = _extract_sql_query(llm_response)
        /\ \A i \in Made("validate_query") :
             /\ \E j \in Made("_extract_sql_query") : j < i
             /\ calls[i].arg = sql_query
        /\ \A i \in Made("db.run") :
             /\ \E j \in Made("validate_query") : j < i
             /\ calls[i].arg = sql_query
             /\ sql_query # None /\ sql_query # <<>>
             /\ validate_query(sql_query)
             /\ i = Len(calls)
        /\ (sql_query \in {None, <<>>} \/ ~validate_query(sql_query))
             => Made("db.run") = {}

C4_Witness ==
    /\ op = "execute_nl_query"
    /\ llm_response = LLM_SALES
    /\ sql_query = EX_SALES
    /\ Len(calls) = 5
    /\ calls[5] = Call("db.run", EX_SALES, FALSE)

DenyWords ==
    { <<"i","n","s","e","r","t">>, <<"u","p","d","a","t","e">>, <<"d","e","l","e","t","e">>,
      <<"d","r","o","p">>, <<"a","l","t","e","r">>, <<"c","r","e","a","t","e">> }

\* some denylisted word stands in q at some offset, letter case aside
HasDenyWord(q) ==
    \E w \in DenyWords : \E i \in 0..(Len(q) - Len(w)) :
        \A j \in 1..Len(w) : lower_char(q[i + j]) = w[j]

\* C5: the gate rejects a query exactly when its lowercased text holds one of insert,
\* update, delete, drop, alter, create as a substring; it rejects "DROP TABLE x",
\* "create table x(...)" and "SELECT created_at FROM events" and accepts
\* "SELECT * FROM sales LIMIT 10".
C5_GateIsSubstringDenylist ==
    /\ op = "execute_sql_query" =>
         /\ (ret = Rejection) <=> HasDenyWord(query)
         /\ query \in {EX_DROP, EX_CREATE, EX_CREATED_AT} => ret = Rejection
         /\ query = EX_SALES => ret # Rejection /\ Made("db.run") # {}
    /\ (op = "execute_nl_query" /\ Made("validate_query") # {}) =>
         ((ret = Rejection) <=> HasDenyWord(sql_query))

C5_Witness ==
    /\ op = "execute_sql_query"
    /\ query = EX_CREATED_AT
    /\ ret = Rejection

-----------------------------------------------------------------------------
(* Properties of the extraction, read off the response execute_nl_query got from the    *)
(* model and the candidate it extracted from it                                         *)

\* the request got a response from the model and applied extraction to it
Extracted == op = "execute_nl_query" /\ llm_response # Unbound

\* the offsets at which sub stands in text
Offsets(text, sub) ==
    {i \in 0..(Len(text) - Len(sub)) : \A j \in 1..Len(sub) : text[i + j] = sub[j]}
Least(S) == CHOOSE x \in S : \A y \in S : x <= y

RECURSIVE Trimmed(_)
\* text without the whitespace at its two ends
Trimmed(text) ==
    IF text = <<>> THEN <<>>
    ELSE IF isspace(Head(text)) THEN Trimmed(Tail(text))
    ELSE IF isspace(text[Len(text)]) THEN Trimmed(SubSeq(text, 1, Len(text) - 1))
    ELSE text

\* SELECT appears in text, letter case aside: it appears in the uppercased text
HasSelect(text) == Offsets(upper(text), SELECT) # {}

\* the text between the first SQL-tagged opening fence and the next fence delimiter (the
\* end of the text when no delimiter follows), trimmed
SqlBlockContent(text) ==
    LET start == Least(Offsets(text, FENCE_SQL)) + Len(FENCE_SQL)
        closing == {i \in Offsets(text, FENCE) : i >= start}
        stop == IF closing = {} THEN Len(text) ELSE Least(closing)
    IN  Trimmed(SubSeq(text, start + 1, stop))

\* C6: for a text with a fenced block tagged as SQL, extraction returns the trimmed
\* content of the first such block, whatever other fenced blocks or SELECT text stand
\* before or after it.
C6_SqlTaggedBlockWins ==
    (Extracted /\ Offsets(llm_response, FENCE_SQL) # {})
        => sql_query = SqlBlockContent(llm_response)

C6_Witness ==
    /\ Extracted
    /\ llm_response = MixedSelect \o FENCE_SQL \o <<"x">>
    /\ sql_query = <<"x">>

RECURSIVE FencesFrom(_, _)
\* the offsets of the fence delimiters of text from offset `from` on, left to right,
\* none overlapping another
FencesFrom(text, from) ==
    LET later == {i \in Offsets(text, FENCE) : i >= from}
    IN  IF later = {} THEN <<>>
        ELSE <<Least(later)>> \o FencesFrom(text, Least(later) + Len(FENCE))

\* the fenced blocks of text, in order: what stands between an odd-numbered fence
\* delimiter and the next delimiter (or the end of the text)
Blocks(text) ==
    LET f == FencesFrom(text, 0)
    IN  [k \in 1..((Len(f) + 1) \div 2) |->
            SubSeq(text, f[2 * k - 1] + Len(FENCE) + 1,
                   IF 2 * k <= Len(f) THEN f[2 * k] ELSE Len(text))]

\* the content without a `sql` tag at its offset 0
Untagged(content) ==
    IF Len(content) >= 3 /\ SubSeq(content, 1, 3) = SQL_TAG
    THEN Trimmed(SubSeq(content, 4, Len(content)))
    ELSE content

\* C7: for a text with no SQL-tagged fence but with a fenced block that contains SELECT
\* (letter case aside), extraction returns the trimmed content of the first fenced block
\* that contains SELECT, without a `sql` tag at its offset 0; earlier fenced blocks
\* without SELECT are skipped.
C7_FirstBlockWithSelect ==
    (Extracted /\ Offsets(llm_response, FENCE_SQL) = {})
    => LET blocks == Blocks(llm_response)
           with == {k \in DOMAIN blocks : HasSelect(blocks[k])}
       IN  with # {} => sql_query = Untagged(Trimmed(blocks[Least(with)]))

C7_Witness ==
    /\ Extracted
    /\ llm_response = FENCE \o FENCE \o FENCE \o MixedSelect
    /\ sql_query = MixedSelect

\* SELECT stands in text at offset i, letter case aside
SelectAt(text, i) ==
    /\ i + Len(SELECT) <= Len(text)
    /\ \A j \in 1..Len(SELECT) : upper_char(text[i + j]) = <<SELECT[j]>>

\* the remainder of text from its first SELECT on, cut at the smallest offset at which
\* one of the four end-markers stands in it (uncut when none does), trimmed
FromFirstSelect(text) ==
    LET start == Least({i \in 0..Len(text) : SelectAt(text, i)})
        rest == SubSeq(text, start + 1, Len(text))
        marks == UNION {Offsets(rest, m) : m \in {BLANK_LINE, CRLF_BLANK_LINE,
                                                  PERIOD_SPACE, PERIOD_NEWLINE}}
    IN  IF marks = {} THEN Trimmed(rest)
        ELSE Trimmed(SubSeq(rest, 1, Least(marks)))

\* C8: the rules fall through in priority order.  Stated for the texts that hold a fence
\* delimiter (the others are C9's): with no SQL-tagged fence and no fenced block
\* containing SELECT, but with SELECT somewhere outside the blocks, extraction yields the
\* trimmed remainder from the first SELECT on, cut at the earliest end-marker; absence is
\* signalled only when SELECT appears nowhere.
C8_FallsThroughToSelectScan ==
    (Extracted /\ Offsets(llm_response, FENCE) # {}
        /\ Offsets(llm_response, FENCE_SQL) = {}
        /\ \A k \in DOMAIN Blocks(llm_response) : ~HasSelect(Blocks(llm_response)[k]))
    => IF \E i \in 0..Len(llm_response) : SelectAt(llm_response, i)
       THEN sql_query = FromFirstSelect(llm_response)
       ELSE HasSelect(llm_response) \/ sql_query = None

\* C9: a text with no fence delimiter that contains SELECT yields the remainder from its
\* first SELECT on, cut at the smallest offset among the end-markers that occur in it,
\* then trimmed; the whole remainder, trimmed, when none occurs.
C9_CutAtEarliestMarker ==
    (Extracted /\ Offsets(llm_response, FENCE) = {}
        /\ \E i \in 0..Len(llm_response) : SelectAt(llm_response, i))
    => sql_query = FromFirstSelect(llm_response)

\* C10, as claimed: a text in which SELECT appears nowhere, in any letter case, yields
\* None, whatever fence delimiters or language tags it holds.
C10_NoSelectNoQuery ==
    (Extracted /\ ~HasSelect(llm_response)) => sql_query = None

\* C10, amended: a text whose uppercased form holds no SELECT and which holds no
\* SQL-tagged fence yields None.
C10_NoSelectNoSqlFenceNoQuery ==
    (Extracted /\ ~HasSelect(llm_response) /\ Offsets(llm_response, FENCE_SQL) = {})
        => sql_query = None

C10_Witness ==
    /\ Extracted
    /\ llm_response = <<"x">> \o FENCE \o BLANK_LINE \o SQL_TAG
    /\ sql_query = None
    /\ ret = [error |-> MSG_NO_SQL, explanation |-> llm_response]

(* ------------------------------------------------------------------------------------ *)
(* The two catalog operations                                                           *)

CatalogOps == {"list_tables", "get_table_schema"}

\* the one call the operation made to the catalog client raised
CatalogRaised == \E i \in DOMAIN calls : calls[i].raised

\* C11: when the catalog client raises an exception with message m, list_tables and
\* get_table_schema return (nothing leaves the handler) a result whose "error" string
\* holds m as a contiguous substring, letter for letter; when the client succeeds, the
\* result has no "error" key.
C11_CatalogErrorCarriesMessage ==
    op \in CatalogOps =>
        /\ outcome = "returned"
        /\ IF CatalogRaised
           THEN /\ exc \in Errors
                /\ "error" \in DOMAIN ret
                /\ Offsets(ret.error, exc) # {}
           ELSE "error" \notin DOMAIN ret

\* both operations have reported a failure of the catalog client; here get_table_schema
\* of the sales table, the client having raised "404 Not found"
C11_Witness ==
    /\ op = "get_table_schema"
    /\ CatalogRaised
    /\ exc = E1
    /\ ret = [error |-> MSG_SCHEMA_ERROR \o T_SALES \o COLON_SPACE \o E1]

(* ------------------------------------------------------------------------------------ *)
(* The web client's supervision of the tool server                                      *)

\* the processes that session s starts with subprocess.Popen in this step
SpawnedByStart(s) == (processes' \ processes) \cap {popen_process(s)}

\* in this step a call of start_mcp_server by session s returns
StartReturns(s) ==
    /\ pc[s] \in InStartMcpServer
    /\ pc'[s] \notin InStartMcpServer \/ site'[s] # site[s]

\* what C12 says of one step of the web client
C12_Step ==
    \A s \in Sessions :
        \* a server is spawned by the Popen statement only, which a session enters only
        \* from a scan that found no process with the script name on its command line
        /\ SpawnedByStart(s) # {} => pc[s] = "L90"
        /\ pc[s] # "L90" /\ pc'[s] = "L90" =>
                pc[s] = "L84" /\ ~is_process_running(SERVER_SCRIPT)
        \* a scan that finds one returns True: no process starts, none ends
        /\ pc[s] = "L84" /\ is_process_running(SERVER_SCRIPT) /\ pc'[s] # "L84" =>
                /\ StartReturns(s)
                /\ processes' = processes
                /\ server_started'[s]
        \* the flag turns true only where a call of start_mcp_server returns
        /\ ~server_started[s] /\ server_started'[s] => StartReturns(s)

FinalSegment(text) ==
    LET f == FencesFrom(text, 0)
    IN  SubSeq(text, f[Len(f)] + Len(FENCE) + 1, Len(text))

\* the text up to the last fence delimiter of text
BeforeFinalSegment(text) ==
    LET f == FencesFrom(text, 0)
    IN  SubSeq(text, 1, f[Len(f)])

\* the response has fence delimiters, none of them SQL-tagged, and SELECT (letter case
\* aside) after the last one only
SelectOnlyInFinalSegment ==
    /\ Extracted
    /\ Offsets(llm_response, FENCE) # {}
    /\ Offsets(llm_response, FENCE_SQL) = {}
    /\ HasSelect(FinalSegment(llm_response))
    /\ ~HasSelect(BeforeFinalSegment(llm_response))

\* C13, as claimed: when the text has an odd number of fence delimiters, what follows the
\* last one is examined by no rule as a block, so a SELECT that occurs only there is never
\* returned as a fenced block's content: the candidate is then absent, or it is the
\* remainder from the first SELECT, cut at its end-marker, and never the trimmed segment.
C13_FinalSegmentUnexamined ==
    (SelectOnlyInFinalSegment /\ Len(FencesFrom(llm_response, 0)) % 2 = 1)
    => sql_query \in {None, FromFirstSelect(llm_response)}

\* C13, amended: it is with an odd number of fence delimiters that what follows the last
\* one is a segment of odd index, examined as a fenced block: a SELECT that occurs only
\* there makes extraction return that segment, trimmed and without a leading sql tag.
\* With an even number of delimiters the final segment has an even index and is left
\* unexamined: it is not what extraction returns.
C13_FinalSegmentIsABlockWhenOdd ==
    SelectOnlyInFinalSegment
    => IF Len(FencesFrom(llm_response, 0)) % 2 = 1
       THEN sql_query = Untagged(Trimmed(FinalSegment(llm_response)))
       ELSE sql_query # Untagged(Trimmed(FinalSegment(llm_response)))

\* one fence delimiter, then x and the SELECT: the whole final segment is the candidate
C13_Witness ==
    /\ Extracted
    /\ llm_response = FENCE \o <<"x">> \o MixedSelect
    /\ sql_query = <<"x">> \o MixedSelect

(* ------------------------------------------------------------------------------------ *)
(* The shape of the results                                                             *)

QueryOps == {"execute_nl_query", "execute_sql_query"}

\* a stage of the request failed: extraction gave no candidate, the gate rejected the
\* query, or a collaborator raised an exception (which the handler caught, since it
\* returned)
StageFailed ==
    \/ op = "execute_nl_query" /\ (sql_query = None \/ sql_query = <<>>)
    \/ \E i \in Made("validate_query") : HasDenyWord(calls[i].arg)
    \/ \E i \in DOMAIN calls : calls[i].raised

\* C14: every result an operation returns is a failure shape or a success shape, told
\* apart by the "error" key alone: the result has "error" if and only if a stage of the
\* request failed; no result has both "error" and "result"; and a result of
\* execute_nl_query or execute_sql_query without "error" has the "query" that was run on
\* the warehouse and a "result".
C14_ErrorKeyDiscriminates ==
    outcome = "returned" =>
        /\ "error" \in DOMAIN ret <=> StageFailed
        /\ ~({"error", "result"} \subseteq DOMAIN ret)
        /\ (op \in QueryOps /\ "error" \notin DOMAIN ret) =>
               /\ {"query", "result"} \subseteq DOMAIN ret
               /\ \E i \in Made("db.run") : calls[i].arg = ret.query /\ ~calls[i].raised
               /\ ret.result \in RunResults

\* a failure shape that carries the query but no result: the warehouse raised on the
\* query extracted from the model's answer
C14_Witness ==
    /\ op = "execute_nl_query"
    /\ outcome = "returned"
    /\ StageFailed
    /\ ret = [error |-> MSG_EXEC_ERROR \o E1, query |-> EX_SALES, explanation |-> LLM_SALES]

(* ------------------------------------------------------------------------------------ *)
(* How many tool servers the web client keeps alive                                     *)

\* the running tool servers that the web client started, by start_mcp_server or for a
\* remote call
SpawnedByUI == {proc \in processes : proc.by \in {"Popen", "stdio_client"}}

\* C15: whatever the sessions do and however their steps interleave (page load, Restart
\* Server, tool discovery, tool calls), no two tool servers started by the web client
\* are alive at the same time: the server started by start_mcp_server serves every
\* remote call, and no two sessions both spawn.
C15_OneToolServer == Cardinality(SpawnedByUI) <= 1

====
